---- MODULE Spec2Model ----
(***************************************************************************)
(* A model of the tool layer of postgres-mcp-server (main.py): ten tools,  *)
(* each opening one psycopg2 connection, running its statements and        *)
(* shaping the rows it gets back.  The database is the state; a tool call  *)
(* is one action, since the coroutines hold no await between their         *)
(* statements and so run to completion on the event loop.                  *)
(*                                                                         *)
(* Names in the model are plain lower-case identifiers, which the engine   *)
(* resolves to themselves when a tool interpolates them unquoted.          *)
(***************************************************************************)
EXTENDS Integers, Sequences, FiniteSets, TLC

VARIABLES db, last, connOpen

vars == <<db, last, connOpen>>

(***************************************************************************)
(* Bounds of the model.                                                    *)
(***************************************************************************)
MaxRows == 2

(***************************************************************************)
(* Defaults of the tool signatures.                                        *)
(***************************************************************************)
DefaultPreviewLimit == 5
DefaultValueCountsLimit == 20

(***************************************************************************)
(* Column values.  A value is SQL NULL, an integer or a text.              *)
(***************************************************************************)
Null == [k |-> "null", i |-> 0, s |-> ""]
IntV(n) == [k |-> "int", i |-> n, s |-> ""]
TextV(t) == [k |-> "text", i |-> 0, s |-> t]


(***************************************************************************)
(* The types the tools branch on.                                          *)
(***************************************************************************)
NumericTypes ==
  {"integer", "bigint", "smallint", "numeric", "real", "double precision", "decimal"}
TextTypes == {"text", "character varying", "character"}

(***************************************************************************)
(* The database: tables in catalog order, each in a schema, with its       *)
(* columns in declaration order and its rows.  Unqualified names in a      *)
(* statement resolve through the search path to the public schema.         *)
(***************************************************************************)
Col(n, t) == [name |-> n, type |-> t]
Table(s, n, cs, rs) == [schema |-> s, name |-> n, cols |-> cs, rows |-> rs]

UsersCols == <<Col("id", "integer"), Col("name", "text")>>
EmptyCols == <<Col("id", "numeric"), Col("name", "character varying")>>
AuditUsersCols == <<Col("id", "uuid"), Col("name", "character varying")>>
AuditLogsCols == <<Col("id", "bigint"), Col("name", "text")>>

(* The rows public.users may hold, (id, name).  A table's rows are kept in the
   order of this list: the engine promises no order of its own, and every
   statement below either counts rows or reads them through Orders. *)
RowDomain ==
  <<<<IntV(0), TextV("")>>, <<IntV(1), TextV("a")>>, <<IntV(1), Null>>,
    <<Null, TextV("")>>, <<Null, Null>>>>

Rank(row) == CHOOSE k \in 1..Len(RowDomain) : RowDomain[k] = row

RowSeqs(n) ==
  {[i \in 1..Len(ks) |-> RowDomain[ks[i]]] :
     ks \in {q \in UNION {[1..m -> 1..Len(RowDomain)] : m \in 0..n} :
               \A i, j \in 1..Len(q) : i < j => q[i] <= q[j]}}

InsertRow(rs, row) ==
  LET Before(r) == Rank(r) <= Rank(row)
      After(r) == Rank(r) > Rank(row)
  IN SelectSeq(rs, Before) \o <<row>> \o SelectSeq(rs, After)

PublicOnly(rs) ==
  <<Table("public", "users", UsersCols, rs), Table("public", "empty_t", EmptyCols, <<>>)>>
WithAudit(rs) ==
  PublicOnly(rs) \o <<Table("audit", "users", AuditUsersCols, <<>>),
                      Table("audit", "logs", AuditLogsCols, <<>>)>>

Databases ==
  {PublicOnly(rs) : rs \in RowSeqs(MaxRows)}
    \cup {WithAudit(rs) : rs \in RowSeqs(MaxRows)}

TableNames == {"users", "empty_t", "logs"}
ColumnNames == {"id", "name", "nope"}
ColumnLists == {<<>>, <<"id">>, <<"id", "name">>, <<"nope">>}

(* The collation order of the names, for ORDER BY table_name. *)
NameOrder == <<"empty_t", "logs", "users">>

(***************************************************************************)
(* What the engine answers.                                                *)
(***************************************************************************)
Resolves(d, table) ==
  \E i \in 1..Len(d) : d[i].schema = "public" /\ d[i].name = table

Rel(d, table) ==
  d[CHOOSE i \in 1..Len(d) : d[i].schema = "public" /\ d[i].name = table]

ColNames(t) == {t.cols[j].name : j \in 1..Len(t.cols)}
HasCol(t, c) == c \in ColNames(t)
ColIdx(t, c) == CHOOSE j \in 1..Len(t.cols) : t.cols[j].name = c
RowIdx(t) == 1..Len(t.rows)

(* information_schema.columns: one row per column of every table of every schema. *)
CatalogRow(t, j) ==
  [table_schema |-> t.schema, table_name |-> t.name, column_name |-> t.cols[j].name,
   data_type |-> t.cols[j].type, ordinal_position |-> j]

RECURSIVE InfoColumnsFrom(_, _)
InfoColumnsFrom(d, i) ==
  IF i > Len(d) THEN <<>>
  ELSE [j \in 1..Len(d[i].cols) |-> CatalogRow(d[i], j)] \o InfoColumnsFrom(d, i + 1)

InfoColumns(d) == InfoColumnsFrom(d, 1)

(* SELECT COUNT( * ) FROM t *)
CountAll(t) == Len(t.rows)

(* A count that takes the empty string for a null. *)
CountWhereNullOrEmpty(t, c) ==
  Cardinality({r \in RowIdx(t) :
                 t.rows[r][ColIdx(t, c)] \in {Null, TextV("")}})

(* SELECT COUNT( * ) FROM t WHERE c IS NULL *)
CountWhereNull(t, c) ==
  Cardinality({r \in RowIdx(t) : t.rows[r][ColIdx(t, c)] = Null})

(* A count that takes a null for the empty string. *)
CountWhereEmptyOrNull(t, c) ==
  Cardinality({r \in RowIdx(t) :
                 t.rows[r][ColIdx(t, c)] \in {Null, TextV("")}})

(* SELECT COUNT( * ) FROM t WHERE c = '' : NULL = '' is not true. *)
CountWhereEmpty(t, c) ==
  Cardinality({r \in RowIdx(t) : t.rows[r][ColIdx(t, c)] = TextV("")})

(* SELECT COUNT(DISTINCT c) FROM t : the aggregate skips NULL inputs. *)
CountDistinctCol(t, c) ==
  Cardinality({t.rows[r][ColIdx(t, c)] : r \in RowIdx(t)} \ {Null})

(* SELECT COUNT(DISTINCT (c1, .., cn)) FROM t : a row value is never a NULL input. *)
Projection(t, r, cs) == [j \in 1..Len(cs) |-> t.rows[r][ColIdx(t, cs[j])]]
CountDistinctTuple(t, cs) ==
  Cardinality({Projection(t, r, cs) : r \in RowIdx(t)})

(* SELECT COUNT( * ) FROM (SELECT DISTINCT * FROM t) *)
CountDistinctStar(t) == Cardinality({t.rows[r] : r \in RowIdx(t)})

(* MIN, MAX and AVG of an integer column skip NULL inputs; NULL over no input. *)
NonNull(t, c) ==
  {r \in RowIdx(t) : t.rows[r][ColIdx(t, c)] # Null}
IntAt(t, r, c) == t.rows[r][ColIdx(t, c)].i

RECURSIVE SumOver(_, _, _)
SumOver(t, c, R) ==
  IF R = {} THEN 0
  ELSE LET r == CHOOSE x \in R : TRUE
       IN IntAt(t, r, c) + SumOver(t, c, R \ {r})

MinOf(t, c) ==
  IF NonNull(t, c) = {} THEN Null
  ELSE IntV(CHOOSE m \in {IntAt(t, r, c) : r \in NonNull(t, c)} :
              \A r \in NonNull(t, c) : m <= IntAt(t, r, c))
MaxOf(t, c) ==
  IF NonNull(t, c) = {} THEN Null
  ELSE IntV(CHOOSE m \in {IntAt(t, r, c) : r \in NonNull(t, c)} :
              \A r \in NonNull(t, c) : m >= IntAt(t, r, c))

(* AVG as the exact quotient num/den, NULL over no input. *)
Ratio(n, m) == [k |-> "ratio", num |-> n, den |-> m]
AvgOf(t, c) ==
  IF NonNull(t, c) = {} THEN Null
  ELSE Ratio(SumOver(t, c, NonNull(t, c)), Cardinality(NonNull(t, c)))

(* The orders in which the engine may hand back rows it was not told to sort. *)
Orders(s) ==
  {[i \in 1..Len(s) |-> s[p[i]]] : p \in Permutations(1..Len(s))}

Min2(a, b) == IF a <= b THEN a ELSE b
Limited(s, n) == SubSeq(s, 1, Min2(n, Len(s)))

(***************************************************************************)
(* What Python computes from the answers.                                  *)
(***************************************************************************)
(* round(num / den * 100, 2), in hundredths; num >= 0, den > 0. *)
RoundHundredths(num, den) ==
  LET q == (num * 10000) \div den
      r == (num * 10000) % den
  IN IF 2 * r > den THEN q + 1
     ELSE IF 2 * r = den THEN q + (q % 2)
     ELSE q

(* round((count / total * 100) if total > 0 else 0, 2), in hundredths. *)
Percentage(count, total) ==
  IF total > 0 THEN RoundHundredths(count, total) ELSE 0

(* round(float(avg_val), 2), in hundredths, of a quotient num/den >= 0. *)
Dec(h) == [k |-> "dec", i |-> h, s |-> ""]
RoundAvg(a) ==
  LET q == (a.num * 100) \div a.den
      r == (a.num * 100) % a.den
  IN Dec(IF 2 * r > a.den THEN q + 1
         ELSE IF 2 * r = a.den THEN q + (q % 2)
         ELSE q)

(* The truth value Python gives avg_val: None and a zero Decimal are false. *)
Truthy(a) == a # Null /\ a.num # 0

(* dict(row) of a RealDictCursor row. *)
RowDict(t, row) == [c \in ColNames(t) |-> row[ColIdx(t, c)]]
RowDicts(t, rows) == [i \in 1..Len(rows) |-> RowDict(t, rows[i])]

(***************************************************************************)
(* The record of one tool call: what was asked, the statements that ran,   *)
(* and how the call ended.  Leaving the connection block without an        *)
(* exception commits; leaving it with one rolls back.                      *)
(***************************************************************************)
None == "None"
NoResult == <<>>
NoQuery == [kind |-> "", table |-> "", row |-> <<>>]

Args(table, column, columns, limit, query) ==
  [table |-> table, column |-> column, columns |-> columns, limit |-> limit,
   query |-> query]

Returned(op, args, stmts, result) ==
  [op |-> op, args |-> args, stmts |-> stmts, ok |-> TRUE, error |-> "",
   raisedBy |-> "", result |-> result, txn |-> "commit"]

Raised(op, args, stmts, error, by) ==
  [op |-> op, args |-> args, stmts |-> stmts, ok |-> FALSE, error |-> error,
   raisedBy |-> by, result |-> NoResult, txn |-> "rollback"]

(***************************************************************************)
(* execute_sql: the caller's statement, verbatim.  The statements drawn    *)
(* here are a SELECT of a table, an INSERT and a DELETE with RETURNING,    *)
(* and a DELETE without, for which fetchall has no result set to fetch.    *)
(***************************************************************************)
InsertRows == {RowDomain[1], RowDomain[5]}

Queries ==
  {[kind |-> "select", table |-> t, row |-> <<>>] : t \in TableNames}
    \cup {[kind |-> "insert_returning", table |-> "users", row |-> r] : r \in InsertRows}
    \cup {[kind |-> "delete_returning", table |-> "users", row |-> <<>>],
          [kind |-> "delete", table |-> "users", row |-> <<>>]}

SetRows(d, table, rs) ==
  [i \in 1..Len(d) |->
     IF d[i].schema = "public" /\ d[i].name = table
       THEN [d[i] EXCEPT !.rows = rs]
       ELSE d[i]]

(* The database as the statement leaves it inside its transaction. *)
Executed(d, q) ==
  IF ~Resolves(d, q.table) THEN d
  ELSE IF q.kind = "insert_returning"
         THEN SetRows(d, q.table, InsertRow(Rel(d, q.table).rows, q.row))
  ELSE IF q.kind \in {"delete_returning", "delete"}
         THEN SetRows(d, q.table, <<>>)
  ELSE d

ExecuteSql(d, q, o) ==
  LET args == Args("", "", <<>>, 0, q)
      stmts == <<"user_sql">>
  IN IF ~Resolves(d, q.table)
       THEN Raised("execute_sql", args, stmts, "UndefinedTable", "engine")
     ELSE IF q.kind = "delete"
       THEN Raised("execute_sql", args, stmts, "ProgrammingError", "driver")
     ELSE IF q.kind = "insert_returning"
       THEN Returned("execute_sql", args, stmts, RowDicts(Rel(d, q.table), <<q.row>>))
     ELSE Returned("execute_sql", args, stmts, RowDicts(Rel(d, q.table), o))

(* The database after the call: the transaction's work if it commits. *)
Committed(d, q, call) ==
  IF call.txn = "commit" THEN Executed(d, q) ELSE d

(***************************************************************************)
(* list_tables                                                             *)
(***************************************************************************)
ListTables(d) ==
  LET IsPublic(n) == Resolves(d, n)
  IN Returned("list_tables", Args("", "", <<>>, 0, NoQuery), <<"catalog_tables">>,
              SelectSeq(NameOrder, IsPublic))

(***************************************************************************)
(* get_schema                                                              *)
(***************************************************************************)
GetSchema(d, table) ==
  LET Match(r) == r.table_name = table
      rows == SelectSeq(InfoColumns(d), Match)
  IN Returned("get_schema", Args(table, "", <<>>, 0, NoQuery), <<"catalog_columns">>,
              [i \in 1..Len(rows) |->
                 [column |-> rows[i].column_name, type |-> rows[i].data_type]])

(***************************************************************************)
(* get_table_stats                                                         *)
(***************************************************************************)
SizePretty(t) == IF Len(t.rows) = 0 THEN "8192 bytes" ELSE "16 kB"

GetTableStats(d, table) ==
  LET args == Args(table, "", <<>>, 0, NoQuery)
      Match(r) == r.table_name = table /\ r.table_schema = "public"
  IN IF ~Resolves(d, table)
       THEN Raised("get_table_stats", args, <<"count_all">>, "UndefinedTable", "engine")
     ELSE Returned("get_table_stats", args,
                   <<"count_all", "catalog_count", "relation_size">>,
                   [table |-> table,
                    row_count |-> CountAll(Rel(d, table)),
                    column_count |-> Len(SelectSeq(InfoColumns(d), Match)),
                    size |-> SizePretty(Rel(d, table))])

(***************************************************************************)
(* check_null_values                                                       *)
(***************************************************************************)
NullEntry(t, col, total_rows) ==
  LET null_count == CountWhereNull(t, col)
  IN [column |-> col,
      null_count |-> null_count,
      null_percentage |-> Percentage(null_count, total_rows),
      non_null_count |-> total_rows - null_count]

CheckNullValues(d, table) ==
  LET args == Args(table, "", <<>>, 0, NoQuery)
      Match(r) == r.table_name = table /\ r.table_schema = "public"
      found == SelectSeq(InfoColumns(d), Match)
      columns == [i \in 1..Len(found) |-> found[i].column_name]
  IN IF ~Resolves(d, table)
       THEN Raised("check_null_values", args, <<"catalog_columns", "count_all">>,
                   "UndefinedTable", "engine")
     ELSE LET t == Rel(d, table)
              total_rows == CountAll(t)
          IN Returned("check_null_values", args,
                      <<"catalog_columns", "count_all">>
                        \o [i \in 1..Len(columns) |-> "count_null"],
                      [i \in 1..Len(columns) |-> NullEntry(t, columns[i], total_rows)])

(***************************************************************************)
(* get_column_stats.  The type lookup names no schema, so it may match a   *)
(* column of a table of the same name elsewhere; fetchone takes the first  *)
(* row the engine hands back, dt.                                          *)
(***************************************************************************)
TypeMatches(d, table, column) ==
  {InfoColumns(d)[i].data_type :
     i \in {j \in 1..Len(InfoColumns(d)) :
              /\ InfoColumns(d)[j].table_name = table
              /\ InfoColumns(d)[j].column_name = column}}

TypePicks(d, table, column) ==
  IF TypeMatches(d, table, column) = {} THEN {None} ELSE TypeMatches(d, table, column)

AvgResult(avg_val) == IF Truthy(avg_val) THEN RoundAvg(avg_val) ELSE Null

GetColumnStats(d, table, column, dt) ==
  LET args == Args(table, column, <<>>, 0, NoQuery)
      op == "get_column_stats"
  IN IF TypeMatches(d, table, column) = {}
       THEN Raised(op, args, <<"catalog_type">>, "TypeError", "handler")
     ELSE IF ~Resolves(d, table)
       THEN Raised(op, args, <<"catalog_type", "count_distinct">>,
                   "UndefinedTable", "engine")
     ELSE IF ~HasCol(Rel(d, table), column)
       THEN Raised(op, args, <<"catalog_type", "count_distinct">>,
                   "UndefinedColumn", "engine")
     ELSE LET t == Rel(d, table)
              distinct_count == CountDistinctCol(t, column)
          IN IF dt \in NumericTypes
               THEN IF t.cols[ColIdx(t, column)].type \notin NumericTypes
                      THEN Raised(op, args,
                                  <<"catalog_type", "count_distinct", "aggregates">>,
                                  "UndefinedFunction", "engine")
                    ELSE Returned(op, args,
                                  <<"catalog_type", "count_distinct", "aggregates">>,
                                  [column |-> column,
                                   data_type |-> dt,
                                   distinct_count |-> distinct_count,
                                   min |-> MinOf(t, column),
                                   max |-> MaxOf(t, column),
                                   avg |-> AvgResult(AvgOf(t, column))])
             ELSE Returned(op, args, <<"catalog_type", "count_distinct">>,
                           [column |-> column,
                            data_type |-> dt,
                            distinct_count |-> distinct_count])

(***************************************************************************)
(* preview_data: the first rows of an unordered scan, o.                   *)
(***************************************************************************)
ScanOrders(d, table) ==
  IF Resolves(d, table) THEN Orders(Rel(d, table).rows) ELSE {<<>>}

(* A preview that answers an unknown table with no rows. *)
PreviewDataLenient(d, table, limit, o) ==
  LET args == Args(table, "", <<>>, limit, NoQuery)
  IN IF ~Resolves(d, table)
       THEN Returned("preview_data", args, <<"select_limit">>, <<>>)
     ELSE IF limit < 0
       THEN Raised("preview_data", args, <<"select_limit">>, "InvalidRowCount", "engine")
     ELSE Returned("preview_data", args, <<"select_limit">>,
                   RowDicts(Rel(d, table), Limited(o, limit)))

PreviewData(d, table, limit, o) ==
  LET args == Args(table, "", <<>>, limit, NoQuery)
  IN IF ~Resolves(d, table)
       THEN Raised("preview_data", args, <<"select_limit">>, "UndefinedTable", "engine")
     ELSE IF limit < 0
       THEN Raised("preview_data", args, <<"select_limit">>, "InvalidRowCount", "engine")
     ELSE Returned("preview_data", args, <<"select_limit">>,
                   RowDicts(Rel(d, table), Limited(o, limit)))

(***************************************************************************)
(* check_duplicate_rows.  No columns and an empty list are the same call.  *)
(***************************************************************************)
DistinctRows(t, columns) ==
  IF columns # <<>>
    THEN IF Len(columns) > 1
           THEN CountDistinctTuple(t, columns)
           ELSE CountDistinctCol(t, columns[1])
    ELSE CountDistinctStar(t)

CheckDuplicateRows(d, table, columns) ==
  LET args == Args(table, "", columns, 0, NoQuery)
      op == "check_duplicate_rows"
  IN IF ~Resolves(d, table)
       THEN Raised(op, args, <<"count_all">>, "UndefinedTable", "engine")
     ELSE IF \E j \in 1..Len(columns) : ~HasCol(Rel(d, table), columns[j])
       THEN Raised(op, args, <<"count_all", "count_distinct">>,
                   "UndefinedColumn", "engine")
     ELSE LET t == Rel(d, table)
              total_rows == CountAll(t)
              distinct_rows == DistinctRows(t, columns)
              duplicate_rows == total_rows - distinct_rows
          IN Returned(op, args, <<"count_all", "count_distinct">>,
                      [table |-> table,
                       columns |-> IF columns # <<>> THEN columns ELSE None,
                       total_rows |-> total_rows,
                       distinct_rows |-> distinct_rows,
                       duplicate_rows |-> duplicate_rows,
                       duplicate_percentage |-> Percentage(duplicate_rows, total_rows)])

(***************************************************************************)
(* column_value_counts: groups by count, largest first; the order among    *)
(* equal counts is the engine's, o.                                        *)
(***************************************************************************)
Groups(t, c) ==
  {[value |-> v,
    count |-> Cardinality({r \in RowIdx(t) : t.rows[r][ColIdx(t, c)] = v})] :
     v \in {t.rows[r][ColIdx(t, c)] : r \in RowIdx(t)}}

GroupOrders(d, table, column) ==
  IF Resolves(d, table) /\ HasCol(Rel(d, table), column)
    THEN LET G == Groups(Rel(d, table), column)
         IN {o \in [1..Cardinality(G) -> G] :
               /\ \A i, j \in 1..Cardinality(G) : i # j => o[i] # o[j]
               /\ \A i, j \in 1..Cardinality(G) : i < j => o[i].count >= o[j].count}
    ELSE {<<>>}

ColumnValueCounts(d, table, column, limit, o) ==
  LET args == Args(table, column, <<>>, limit, NoQuery)
      op == "column_value_counts"
  IN IF ~Resolves(d, table)
       THEN Raised(op, args, <<"group_count">>, "UndefinedTable", "engine")
     ELSE IF ~HasCol(Rel(d, table), column)
       THEN Raised(op, args, <<"group_count">>, "UndefinedColumn", "engine")
     ELSE IF limit < 0
       THEN Raised(op, args, <<"group_count">>, "InvalidRowCount", "engine")
     ELSE Returned(op, args, <<"group_count">>, Limited(o, limit))

(***************************************************************************)
(* check_empty_strings.  The type lookup is within the public schema and   *)
(* a column it does not find has the type None.                            *)
(***************************************************************************)
PublicType(d, table, column) ==
  IF Resolves(d, table) /\ HasCol(Rel(d, table), column)
    THEN Rel(d, table).cols[ColIdx(Rel(d, table), column)].type
    ELSE None

CheckEmptyStrings(d, table, column) ==
  LET args == Args(table, column, <<>>, 0, NoQuery)
      op == "check_empty_strings"
      data_type == PublicType(d, table, column)
  IN IF ~Resolves(d, table)
       THEN Raised(op, args, <<"catalog_type", "count_all">>, "UndefinedTable", "engine")
     ELSE LET t == Rel(d, table)
              total_rows == CountAll(t)
          IN IF data_type \in TextTypes
               THEN LET empty_count == CountWhereEmpty(t, column)
                    IN Returned(op, args, <<"catalog_type", "count_all", "count_empty">>,
                                [table |-> table,
                                 column |-> column,
                                 data_type |-> data_type,
                                 empty_string_count |-> empty_count,
                                 empty_string_percentage |->
                                   Percentage(empty_count, total_rows),
                                 note |-> None])
               ELSE Returned(op, args, <<"catalog_type", "count_all">>,
                             [table |-> table,
                              column |-> column,
                              data_type |-> data_type,
                              empty_string_count |-> 0,
                              empty_string_percentage |-> 0,
                              note |-> "column is not a text type"])

(***************************************************************************)
(* The connection of a call.  Each call opens one; leaving its block ends  *)
(* the transaction (call.txn) and does not close the connection, and no    *)
(* tool calls close: the connection stays open until the interpreter       *)
(* reclaims the object.  connOpen: a connection a call opened and left     *)
(* behind is still open.                                                   *)
(***************************************************************************)
Finish(call, d2) ==
  /\ last' = call
  /\ db' = d2
  /\ connOpen' = TRUE

Limits == {-1, 1, DefaultPreviewLimit}
CountLimits == {1, DefaultValueCountsLimit}

Init ==
  /\ db \in Databases
  /\ last = [op |-> "none"]
  /\ connOpen = FALSE

execute_sql ==
  \E q \in Queries :
    /\ q.kind = "insert_returning" => Len(Rel(db, q.table).rows) < MaxRows
    /\ \E o \in ScanOrders(db, q.table) :
         LET call == ExecuteSql(db, q, o)
         IN Finish(call, Committed(db, q, call))

list_tables == Finish(ListTables(db), db)

get_schema ==
  \E table \in TableNames :
    Finish(GetSchema(db, table), db)

get_table_stats ==
  \E table \in TableNames :
    Finish(GetTableStats(db, table), db)

check_null_values ==
  \E table \in TableNames :
    Finish(CheckNullValues(db, table), db)

get_column_stats ==
  \E table \in TableNames, column \in ColumnNames :
    \E dt \in TypePicks(db, table, column) :
      Finish(GetColumnStats(db, table, column, dt), db)

preview_data ==
  \E table \in TableNames, limit \in Limits :
    \E o \in ScanOrders(db, table) :
      Finish(PreviewData(db, table, limit, o), db)

check_duplicate_rows ==
  \E table \in TableNames, columns \in ColumnLists :
    Finish(CheckDuplicateRows(db, table, columns), db)

column_value_counts ==
  \E table \in TableNames, column \in ColumnNames, limit \in CountLimits :
    \E o \in GroupOrders(db, table, column) :
      Finish(ColumnValueCounts(db, table, column, limit, o), db)

check_empty_strings ==
  \E table \in TableNames, column \in ColumnNames :
    Finish(CheckEmptyStrings(db, table, column), db)

(* The interpreter reclaims the connection objects finished calls left open. *)
Reclaim ==
  /\ connOpen
  /\ connOpen' = FALSE
  /\ UNCHANGED <<db, last>>

Next ==
  \/ execute_sql
  \/ list_tables
  \/ get_schema
  \/ get_table_stats
  \/ check_null_values
  \/ get_column_stats
  \/ preview_data
  \/ check_duplicate_rows
  \/ column_value_counts
  \/ check_empty_strings
  \/ Reclaim

Spec == Init /\ [][Next]_vars

(***************************************************************************)
(* Properties.                                                             *)
(***************************************************************************)
Called(op) == last.op = op
T0 == Rel(db, last.args.table)
ExistsAnywhere(table) == \E i \in 1..Len(db) : db[i].name = table
Abs(x) == IF x < 0 THEN -x ELSE x

(* h is count/total as a percentage rounded to two decimals, in hundredths:
   the nearest hundredth, the even one of two equally near; 0 of an empty table. *)
IsPercentage(h, count, total) ==
  IF total = 0 THEN h = 0
  ELSE /\ 2 * Abs(h * total - 10000 * count) <= total
       /\ 2 * Abs(h * total - 10000 * count) = total => h % 2 = 0

(* C1: when a call has ended its connection's transaction is committed or
   rolled back and the connection is closed: no connection of a finished call
   is still open. *)
C1_ConnectionsClosed ==
  ~Called("none") => last.txn \in {"commit", "rollback"} /\ connOpen = FALSE

(* C2: no call, execute_sql included, changes the content or the catalog of
   the database, whether it returns or fails. *)
C2_ReadOnly == [][db' = db]_vars

TuplesOver(t, columns) ==
  IF columns = <<>> THEN {t.rows[r] : r \in RowIdx(t)}
  ELSE {[j \in 1..Len(columns) |-> t.rows[r][ColIdx(t, columns[j])]] : r \in RowIdx(t)}

(* C3: a check_duplicate_rows call that returns reports the number of rows, the
   number of distinct tuples over the given columns (over the whole row when
   none is given; a null is a value like another), their difference, which is
   not negative, and a percentage of 0 for an empty table. *)
C3_DuplicateRows ==
  Called("check_duplicate_rows") /\ last.ok =>
    /\ last.result.total_rows = Len(T0.rows)
    /\ last.result.distinct_rows = Cardinality(TuplesOver(T0, last.args.columns))
    /\ last.result.duplicate_rows = last.result.total_rows - last.result.distinct_rows
    /\ last.result.duplicate_rows >= 0
    /\ last.result.total_rows = 0 => last.result.duplicate_percentage = 0

NullRows(t, j) == {r \in RowIdx(t) : t.rows[r][j].k = "null"}
ValueRows(t, j) == {r \in RowIdx(t) : t.rows[r][j].k # "null"}

(* C4: check_null_values of a table returns one entry per column, in
   declaration order, with the number of rows that are null in the column, the
   number that are not, the two adding up to the number of rows, and the null
   percentage rounded to two decimals (0 for an empty table). *)
C4_NullValues ==
  Called("check_null_values") /\ Resolves(db, last.args.table) =>
    /\ last.ok
    /\ Len(last.result) = Len(T0.cols)
    /\ \A j \in 1..Len(T0.cols) :
         /\ last.result[j].column = T0.cols[j].name
         /\ last.result[j].null_count = Cardinality(NullRows(T0, j))
         /\ last.result[j].non_null_count = Cardinality(ValueRows(T0, j))
         /\ last.result[j].null_count + last.result[j].non_null_count = Len(T0.rows)
         /\ IsPercentage(last.result[j].null_percentage,
                         Cardinality(NullRows(T0, j)), Len(T0.rows))

(* A check_null_values call on a table with a null and a value in its first
   column and no null in its second. *)
C4_Witness ==
  /\ Called("check_null_values") /\ last.ok
  /\ Len(last.result) = 2
  /\ last.result[1].null_count = 1 /\ last.result[1].non_null_count = 1
  /\ last.result[1].null_percentage = 5000
  /\ last.result[2].null_count = 0 /\ last.result[2].non_null_count = 2

T0Col == ColIdx(T0, last.args.column)
NamesColumn == Resolves(db, last.args.table) /\ HasCol(T0, last.args.column)

(* h is the quotient sum/n rounded to two decimals, in hundredths. *)
IsRoundedQuotient(h, sum, n) ==
  /\ 2 * Abs(h * n - 100 * sum) <= n
  /\ 2 * Abs(h * n - 100 * sum) = n => h % 2 = 0

(* C5: get_column_stats of a column that is not numeric returns no min, max or
   avg; of a numeric column with a value that is not null it returns min, max
   and an avg that is a number, the average rounded to two decimals, between
   min and max; avg is null only when the column holds no value. *)
C5_ColumnStats ==
  Called("get_column_stats") /\ NamesColumn =>
    LET values == ValueRows(T0, T0Col)
        numeric == T0.cols[T0Col].type \in NumericTypes
    IN /\ ~numeric =>
            last.ok /\ {"min", "max", "avg"} \cap DOMAIN last.result = {}
       /\ numeric /\ values # {} =>
            /\ last.ok
            /\ {"min", "max", "avg"} \subseteq DOMAIN last.result
            /\ last.result.avg.k = "dec"
            /\ IsRoundedQuotient(last.result.avg.i,
                                 SumOver(T0, last.args.column, values),
                                 Cardinality(values))
            /\ 100 * last.result.min.i <= last.result.avg.i
            /\ last.result.avg.i <= 100 * last.result.max.i
       /\ numeric /\ values = {} =>
            last.ok /\ "avg" \in DOMAIN last.result /\ last.result.avg = Null

TakesTable ==
  {"get_table_stats", "check_null_values", "get_column_stats", "preview_data",
   "check_duplicate_rows", "column_value_counts", "check_empty_strings"}
TakesColumn == {"get_column_stats", "column_value_counts", "check_empty_strings"}

NamesMissing ==
  /\ last.op \in TakesTable
  /\ IF ~Resolves(db, last.args.table) THEN TRUE
     ELSE \/ last.op \in TakesColumn /\ ~HasCol(T0, last.args.column)
          \/ \E j \in 1..Len(last.args.columns) : ~HasCol(T0, last.args.columns[j])

(* C6: a call, of any tool but get_schema, that names a table or a column the
   public schema does not have returns nothing: it fails with the engine's
   own error, and its connection's transaction is ended. *)
C6_MissingNamesFail ==
  NamesMissing =>
    ~last.ok /\ last.raisedBy = "engine" /\ last.txn = "rollback"

(* C7: get_schema of a table of the public schema returns one entry per
   column of that table, each with a type, whatever other schemas hold. *)
C7_SchemaEntries ==
  Called("get_schema") /\ Resolves(db, last.args.table) =>
    /\ last.ok
    /\ Len(last.result) = Len(T0.cols)
    /\ {last.result[i].column : i \in 1..Len(last.result)} = ColNames(T0)
    /\ \A i \in 1..Len(last.result) : last.result[i].type # ""

(* C8: a call that follows a call of the same tool with the same arguments,
   nothing else having touched the database, ends as the first did: both
   fail, or both return the same result. *)
C8_Idempotent ==
  [][~Called("none") /\ last'.op = last.op /\ last'.args = last.args =>
       last'.ok = last.ok /\ (last.ok => last'.result = last.result)]_vars

EmptyRows(t, j) == {r \in RowIdx(t) : t.rows[r][j].k = "text" /\ t.rows[r][j].s = ""}

(* C9: check_empty_strings of a column that is not of a text type returns a
   count and a percentage of 0 and a note, and does not run the count; of a
   text column it returns no note, the number of rows whose value is the
   empty string, nulls not counted, and its percentage of the rows rounded to
   two decimals (0 for an empty table). *)
C9_EmptyStrings ==
  Called("check_empty_strings") /\ NamesColumn =>
    /\ last.ok
    /\ IF T0.cols[T0Col].type \in TextTypes
         THEN /\ last.result.note = None
              /\ last.result.empty_string_count = Cardinality(EmptyRows(T0, T0Col))
              /\ IsPercentage(last.result.empty_string_percentage,
                              Cardinality(EmptyRows(T0, T0Col)), Len(T0.rows))
         ELSE /\ last.result.note # None
              /\ last.result.empty_string_count = 0
              /\ last.result.empty_string_percentage = 0
              /\ \A i \in 1..Len(last.stmts) : last.stmts[i] # "count_empty"

(* A check_empty_strings call on a text column holding an empty string and a
   null. *)
C9_Witness ==
  /\ Called("check_empty_strings") /\ last.ok
  /\ last.result.data_type = "text"
  /\ Cardinality(NullRows(T0, T0Col)) = 1
  /\ last.result.empty_string_count = 1
  /\ last.result.empty_string_percentage = 5000

(* C10: for a table name the database does not have, get_schema returns the
   empty sequence and no error, and preview_data fails with the engine's
   error and returns no row, whatever the limit. *)
C10_UnknownTable ==
  ~Called("none") /\ ~ExistsAnywhere(last.args.table) =>
    /\ Called("get_schema") => last.ok /\ last.result = <<>>
    /\ Called("preview_data") =>
         ~last.ok /\ last.raisedBy = "engine" /\ last.error = "UndefinedTable"

(* A preview_data call with the default limit, on a name the database does
   not have, that failed. *)
C10_Witness ==
  /\ Called("preview_data") /\ ~ExistsAnywhere(last.args.table)
  /\ last.args.limit = DefaultPreviewLimit
  /\ ~last.ok

====
